---- MODULE Spec2Model ----
(***************************************************************************)
(* Reed-Solomon encoding (Code::new) and round-by-round folding            *)
(* (Code::fold_code, fold) of src/src/utils/code.rs over a binary tower    *)
(* field, with the additive NTT of binius_ntt as the transform.            *)
(*                                                                         *)
(* The 128-bit tower field is scaled to a tower of height TowerHeight      *)
(* (2^TowerHeight bits); the tower construction, the butterfly network and *)
(* the twiddle tables are those of the libraries the source calls.         *)
(***************************************************************************)
EXTENDS Integers, Sequences, FiniteSets, TLC

\* ------------------------------------------------------------------ bounds

\* Messages hold at most 2^MaxLogLen elements.
MaxLogLen == 2

\* With the tasks of fold_code interleaved, messages hold at most
\* 2^MaxParLogLen elements.
MaxParLogLen == 1

\* The wide field has 2^TowerHeight bits (BinaryField128b: height 7).
TowerHeight == 3

\* ------------------------------------------------------- program constants

RATE == 4
LOG_RATE == 2

\* SingleThreadedNTT::new(l + 2): the domain holds RATE cosets of the
\* longest message.
LogDomain == MaxLogLen + LOG_RATE

\* --------------------------------------------------- binary tower field

Pow2(n) == 2 ^ n

WideBits == Pow2(TowerHeight)

\* Field elements are the integers 0 .. 2^bits - 1, bit i the coefficient of
\* the i-th basis element of the tower over GF(2).
RECURSIVE XorBits(_, _)
XorBits(a, b) ==
    IF a = 0 THEN b
    ELSE IF b = 0 THEN a
    ELSE ((a + b) % 2) + 2 * XorBits(a \div 2, b \div 2)

\* The bitwise sum of two 4-bit values, tabulated.
XorNibble == [a \in 0..15 |-> [b \in 0..15 |-> XorBits(a, b)]]

RECURSIVE Xor(_, _)
Xor(a, b) ==
    IF a < 16 /\ b < 16 THEN XorNibble[a][b]
    ELSE XorNibble[a % 16][b % 16] + 16 * Xor(a \div 16, b \div 16)

\* Addition of the field: characteristic 2.
Add(a, b) == Xor(a, b)

\* Multiplication in the tower level of height h (2^h bits):
\* T_h = T_{h-1}[X] / (X^2 + X * X_{h-2} + 1), an element a0 + a1 * X held as
\* a0 + 2^(2^(h-1)) * a1.
RECURSIVE TowerMulBits(_, _, _)
TowerMulBits(a, b, h) ==
    IF h = 0 THEN a * b
    ELSE IF a = 0 \/ b = 0 THEN 0
    ELSE
        LET half == Pow2(h - 1)
            m    == Pow2(half)
            a0   == a % m
            a1   == a \div m
            b0   == b % m
            b1   == b \div m
            z0   == TowerMulBits(a0, b0, h - 1)
            z2   == TowerMulBits(a1, b1, h - 1)
            z1   == XorBits(TowerMulBits(a0, b1, h - 1), TowerMulBits(a1, b0, h - 1))
            \* X_{h-2}, the generator of the level below (1 at the bottom)
            xprev == IF h = 1 THEN 1 ELSE Pow2(Pow2(h - 2))
            z2x  == TowerMulBits(z2, xprev, h - 1)
        IN  XorBits(z0, z2) + m * XorBits(z1, z2x)

\* The products of the 4-bit level (height 2), tabulated.
MulNibble == [a \in 0..15 |-> [b \in 0..15 |-> TowerMulBits(a, b, 2)]]

\* The same multiplication, the levels up to height 2 read from the table.
RECURSIVE TowerMul(_, _, _)
TowerMul(a, b, h) ==
    IF a = 0 \/ b = 0 THEN 0
    ELSE IF h <= 2 THEN MulNibble[a][b]
    ELSE
        LET half == Pow2(h - 1)
            m    == Pow2(half)
            a0   == a % m
            a1   == a \div m
            b0   == b % m
            b1   == b \div m
            z0   == TowerMul(a0, b0, h - 1)
            z2   == TowerMul(a1, b1, h - 1)
            z1   == Xor(TowerMul(a0, b1, h - 1), TowerMul(a1, b0, h - 1))
            xprev == Pow2(Pow2(h - 2))
            z2x  == TowerMul(z2, xprev, h - 1)
        IN  Xor(z0, z2) + m * Xor(z1, z2x)

Mul(a, b) == TowerMul(a, b, TowerHeight)

ZERO == 0

\* F::basis(i) of the wide field over GF(2).
Basis(i) == Pow2(i)

ONE == Basis(0)

\* Multiplicative inverse of a non-zero element: a^(2^bits - 2), the product
\* of the squares a^2, a^4, ..., a^(2^(bits-1)).
RECURSIVE InvLoop(_, _, _)
InvLoop(sq, acc, n) ==
    IF n = 0 THEN acc
    ELSE LET s2 == Mul(sq, sq) IN InvLoop(s2, Mul(acc, s2), n - 1)

Inv(a) == InvLoop(a, ONE, WideBits - 1)

\* ------------------------------------------------------------ sequences

\* Rust indexes from 0.
At(s, idx) == s[idx + 1]

Zeros(n) == [i \in 1..n |-> ZERO]

IsPowerOfTwo(n) == \E e \in 0..WideBits : n = Pow2(e)

Log2(n) == CHOOSE e \in 0..WideBits : n = Pow2(e)

\* Bit b of a usize.
Bit(x, b) == (x \div Pow2(b)) % 2

\* ------------------------------------------- additive NTT (binius_ntt)

\* subspace_map: W_i(x) = W_{i-1}(x)^2 + W_{i-1}(beta_{i-1}) * W_{i-1}(x).
SubspaceMap(elem, constant) == Add(Mul(elem, elem), Mul(constant, elem))

\* Layer i of precompute_subspace_evals before normalisation: norm is
\* W_i(beta_i) and evals[b] is W_i(beta_{i+b}), b = 1 .. LogDomain - 1 - i.
RECURSIVE SubspaceLayer(_)
SubspaceLayer(i) ==
    IF i = 0
    THEN [norm |-> ONE, evals |-> [b \in 1..(LogDomain - 1) |-> Basis(b)]]
    ELSE LET p == SubspaceLayer(i - 1)
         IN  [norm  |-> SubspaceMap(p.evals[1], p.norm),
              evals |-> [b \in 1..(Len(p.evals) - 1) |->
                            SubspaceMap(p.evals[b + 1], p.norm)]]

\* The normalised twiddle basis of every layer: s_evals[i][b] is the
\* normalised subspace polynomial of layer i at beta_{i+b}.
s_evals ==
    [i \in 0..(LogDomain - 1) |->
        LET w == SubspaceLayer(i)
            ninv == Inv(w.norm)
        IN  [b \in 1..Len(w.evals) |-> Mul(w.evals[b], ninv)]]

\* subset_sum of the on-the-fly twiddle access: the sum of the basis values
\* at the set bits of idx.
RECURSIVE SubsetSum(_, _, _)
SubsetSum(values, idx, b) ==
    IF b > Len(values) THEN ZERO
    ELSE Add(IF Bit(idx, b - 1) = 1 THEN values[b] ELSE ZERO,
             SubsetSum(values, idx, b + 1))

\* AdditiveNTT::get_subspace_eval(i, j) = s_evals[i].get(j).
get_subspace_eval(round, idx) == SubsetSum(s_evals[round], idx, 1)

\* One butterfly of the forward transform on the pair (idx0, idx1).
Butterfly(data, idx0, idx1, twiddle) ==
    LET u == Add(At(data, idx0), Mul(At(data, idx1), twiddle))
        v == Add(At(data, idx1), u)
    IN  [data EXCEPT ![idx0 + 1] = u, ![idx1 + 1] = v]

\* Layer i of the forward transform: block j has the twiddle of the coset's
\* j-th entry, and pairs idx0 = j << (i+1) | k with idx1 = idx0 | 1 << i.
ForwardLayer(data, logN, coset, i) ==
    [p \in 1..Len(data) |->
        LET idx  == p - 1
            j    == idx \div Pow2(i + 1)
            k    == idx % Pow2(i)
            idx0 == j * Pow2(i + 1) + k
            idx1 == idx0 + Pow2(i)
            tw   == get_subspace_eval(i, coset * Pow2(logN - 1 - i) + j)
        IN  At(Butterfly(data, idx0, idx1, tw), idx)]

RECURSIVE ForwardLayers(_, _, _, _)
ForwardLayers(data, logN, coset, i) ==
    IF i < 0 THEN data
    ELSE ForwardLayers(ForwardLayer(data, logN, coset, i), logN, coset, i - 1)

\* AdditiveNTT::forward_transform(data, coset, log_batch_size = 0): the
\* buffer after the call, or an error that leaves no result.
forward_transform(data, coset) ==
    IF Len(data) <= 1 THEN [ok |-> TRUE, data |-> data]
    ELSE IF ~IsPowerOfTwo(Len(data)) THEN [ok |-> FALSE, data |-> data]
    ELSE IF Log2(Len(data)) > LogDomain
            \/ coset >= Pow2(LogDomain - Log2(Len(data)))
         THEN [ok |-> FALSE, data |-> data]
    ELSE [ok |-> TRUE,
          data |-> ForwardLayers(data, Log2(Len(data)), coset, Log2(Len(data)) - 1)]

\* --------------------------------------------------------------- inputs

\* ExtensionField<F>::DEGREE of the wide field over the message field F: the
\* wide field itself, and the field of half its width.
Degrees == {1, 2}

\* Bits of the message field of extension degree d.
NarrowBits(d) == WideBits \div d

\* Non-zero message elements; they lie in every message field of Degrees.
MsgVals == {1, 6}

\* Folding challenges.
Challenges == {1, 2, 167}

\* Messages of n elements with one or two non-zero entries.
Messages(n) ==
    {[l \in 1..n |-> IF l = i THEN a ELSE IF l = j THEN b ELSE ZERO] :
        i \in 1..n, j \in 1..n, a \in MsgVals, b \in MsgVals \cup {ZERO}}

\* ----------------------------------------------------- Code::new

\* message.par_chunks(DEGREE): chunk c (from 0) of the message; the last
\* chunk is short when DEGREE does not divide the length.
NumChunks(message, d) == (Len(message) + d - 1) \div d

Chunk(message, d, c) ==
    SubSeq(message, c * d + 1, IF (c + 1) * d <= Len(message)
                               THEN (c + 1) * d ELSE Len(message))

\* ExtensionField::from_bases: an error for more than DEGREE elements;
\* otherwise element i is placed at bit i * NarrowBits, and the elements a
\* short slice lacks stay zero.
RECURSIVE PackBits(_, _, _)
PackBits(base_elems, d, i) ==
    IF i > Len(base_elems) THEN 0
    ELSE base_elems[i] * Pow2((i - 1) * NarrowBits(d)) + PackBits(base_elems, d, i + 1)

from_bases(base_elems, d) ==
    IF Len(base_elems) > d THEN [ok |-> FALSE, val |-> ZERO]
    ELSE [ok |-> TRUE, val |-> PackBits(base_elems, d, 1)]

\* Lines 35-38: repacked_message, and whether every unwrap succeeded.
Repack(message, d) ==
    [ok  |-> \A c \in 0..(NumChunks(message, d) - 1) :
                from_bases(Chunk(message, d, c), d).ok,
     val |-> [c \in 1..NumChunks(message, d) |->
                from_bases(Chunk(message, d, c - 1), d).val]]

\* The buffer of the previous coset transformed again, without the clone.
CosetInput_NoClone(repacked_message, temp) ==
    IF temp = <<>> THEN repacked_message ELSE temp

\* Line 43, temp = repacked_message.clone(): the buffer handed to the
\* transform of each coset.
CosetInput(repacked_message, temp) == repacked_message

\* Lines 42-46: the loop from coset i on; temp is what the previous
\* iteration left in its buffer.
RECURSIVE CosetLoop(_, _, _, _)
CosetLoop(i, repacked_message, temp, encoding) ==
    IF i >= RATE THEN [ok |-> TRUE, encoding |-> encoding]
    ELSE LET t == forward_transform(CosetInput(repacked_message, temp), i)
         IN  IF ~t.ok THEN [ok |-> FALSE, encoding |-> <<>>]
             ELSE CosetLoop(i + 1, repacked_message, t.data, encoding \o t.data)

\* The coset loop started at 1: one coset is missing.
Code_new_SkipCoset(message, d) ==
    LET r == Repack(message, d)
    IN  IF ~r.ok THEN [ok |-> FALSE, encoding |-> <<>>]
        ELSE CosetLoop(1, r.val, <<>>, <<>>)

\* Code::new: ok is FALSE when an unwrap panics, and then no Code exists.
Code_new(message, d) ==
    LET r == Repack(message, d)
    IN  IF ~r.ok THEN [ok |-> FALSE, encoding |-> <<>>]
        ELSE CosetLoop(0, r.val, <<>>, <<>>)

\* ----------------------------------------------------- fold, fold_code

\* The fold without the inverse butterfly step x0 += x1 * twiddle.
fold_NoButterfly(r, round, idx, val0, val1) ==
    LET x1 == Add(val1, val0)
        x0 == val0
    IN  Add(x0, Mul(r, Add(x0, x1)))

\* The fold interpolating with x1 instead of x0 + x1.
fold_NoInterp(r, round, idx, val0, val1) ==
    LET twiddle == get_subspace_eval(round, idx)
        x1 == Add(val1, val0)
        x0 == Add(val0, Mul(x1, twiddle))
    IN  Add(x0, Mul(r, x1))

\* fold (lines 106-127).
fold(r, round, idx, val0, val1) ==
    LET twiddle == get_subspace_eval(round, idx)
        x1 == Add(val1, val0)
        x0 == Add(val0, Mul(x1, twiddle))
    IN  Add(x0, Mul(r, Add(x0, x1)))

\* The closure looking the twiddle up with the input index i << 1.
FoldTaskValue_InputIdx(self, r, round, i) ==
    fold(r, round, 2 * i, At(self, 2 * i), At(self, 2 * i + 1))

\* The per-index closure of fold_code (lines 87-96).
FoldTaskValue(self, r, round, i) ==
    fold(r, round, i, At(self, 2 * i), At(self, 2 * i + 1))

\* fold_code sizing its output with len >> 2.
fold_code_Quarter(self, r, round) ==
    LET n == Len(self) \div 4
    IN  [ok   |-> TRUE,
         self |-> self,
         ret  |-> [p \in 1..n |-> FoldTaskValue(self, r, round, p - 1)]]

\* fold_code writing the folded values into the front of its own buffer.
fold_code_InPlace(self, r, round) ==
    LET n == Len(self) \div 2
        ret == [p \in 1..n |-> FoldTaskValue(self, r, round, p - 1)]
    IN  [ok   |-> TRUE,
         self |-> [p \in 1..Len(self) |-> IF p <= n THEN ret[p] ELSE self[p]],
         ret  |-> ret]

\* Code::fold_code (lines 85-97): self as the call leaves it, the encoding
\* of the Code it returns, and ok = FALSE when a task panics (the twiddle
\* table has no layer `round`).
fold_code(self, r, round) ==
    LET n == Len(self) \div 2
    IN  IF n > 0 /\ round >= LogDomain
        THEN [ok |-> FALSE, self |-> self, ret |-> <<>>]
        ELSE [ok   |-> TRUE,
              self |-> self,
              ret  |-> [p \in 1..n |-> FoldTaskValue(self, r, round, p - 1)]]

\* ---------------------------------------------------------------- state

VARIABLES
    message,    \* the message handed to Code::new
    degree,     \* DEGREE of the wide field over the message's field
    pc,         \* "start", "ready" (the caller holds a Code), "panicked"
    code,       \* encoding of the Code the caller holds
    self_enc,   \* encoding of the Code the last fold_code was called on, after the call
    rs,         \* the challenges of the folds so far, one per round
    out,        \* fold_code in progress: its output buffer
    todo,       \* fold_code in progress: the indices whose task has not run
    cur_r       \* fold_code in progress: its challenge

vars == <<message, degree, pc, code, self_enc, rs, out, todo, cur_r>>

par_vars == <<out, todo, cur_r>>

\* The round the caller passes to the next fold_code: 0, 1, 2, ...
round == Len(rs)

\* A caller about to encode a message.
InitEncode ==
    /\ degree \in Degrees
    /\ \E n \in 1..Pow2(MaxLogLen) : message \in Messages(n)
    /\ pc = "start"
    /\ code = <<>>

\* Code { encoding } built from its public field: any length is possible.
InitLiteral ==
    /\ degree = 1
    /\ message = <<>>
    /\ pc = "ready"
    /\ \E n \in {3, 6} : code \in Messages(n)

Init ==
    /\ InitEncode \/ InitLiteral
    /\ self_enc = <<>>
    /\ rs = <<>>
    /\ out = <<>>
    /\ todo = {}
    /\ cur_r = ZERO

\* let code = Code::new(&message, &ntt)
New ==
    /\ pc = "start"
    /\ LET c == Code_new(message, degree)
       IN  /\ pc' = IF c.ok THEN "ready" ELSE "panicked"
           /\ code' = c.encoding
    /\ UNCHANGED <<message, degree, self_enc, rs, par_vars>>

\* folded_code = folded_code.fold_code(r, round, &ntt)
FoldCode(r) ==
    /\ pc = "ready"
    /\ Len(code) > 0
    /\ LET f == fold_code(code, r, round)
       IN  /\ pc' = IF f.ok THEN "ready" ELSE "panicked"
           /\ self_enc' = f.self
           /\ code' = f.ret
    /\ rs' = Append(rs, r)
    /\ UNCHANGED <<message, degree, par_vars>>

Next ==
    \/ New
    \/ \E r \in Challenges : FoldCode(r)

Spec == Init /\ [][Next]_vars

\* ------------------------------------- fold_code, its tasks interleaved

\* The tasks writing in the order they complete, as appends would.
SlotOf_Completion(i, ndone) == ndone

\* Lines 87-88, par_iter_mut().enumerate(): task i holds the reference to
\* slot i of the output, whatever number of tasks completed before it.
SlotOf(i, ndone) == i

\* Line 85: the output buffer, zeroed, and one task per output index.
FoldBegin(r) ==
    /\ pc = "ready"
    /\ Len(code) > 0
    /\ pc' = "folding"
    /\ out' = Zeros(Len(code) \div 2)
    /\ todo' = 0..(Len(code) \div 2 - 1)
    /\ cur_r' = r
    /\ UNCHANGED <<message, degree, code, self_enc, rs>>

\* Lines 87-96: one task of the parallel for_each, in any order.
FoldTask(i) ==
    /\ pc = "folding"
    /\ i \in todo
    /\ IF round >= LogDomain
       THEN /\ pc' = "panicked"
            /\ UNCHANGED out
       ELSE /\ pc' = pc
            /\ out' = [out EXCEPT ![SlotOf(i, Len(out) - Cardinality(todo)) + 1] =
                                     FoldTaskValue(code, cur_r, round, i)]
    /\ todo' = todo \ {i}
    /\ UNCHANGED <<message, degree, code, self_enc, rs, cur_r>>

\* Line 97: every task has run; the buffer becomes the returned Code.
FoldJoin ==
    /\ pc = "folding"
    /\ todo = {}
    /\ pc' = "ready"
    /\ self_enc' = code
    /\ code' = out
    /\ rs' = Append(rs, cur_r)
    /\ out' = <<>>
    /\ cur_r' = ZERO
    /\ UNCHANGED <<message, degree, todo>>

InitPar ==
    /\ \/ /\ degree = 1
          /\ \E n \in 1..Pow2(MaxParLogLen) : message \in Messages(n)
          /\ pc = "start"
          /\ code = <<>>
       \/ InitLiteral
    /\ self_enc = <<>>
    /\ rs = <<>>
    /\ out = <<>>
    /\ todo = {}
    /\ cur_r = ZERO

NextPar ==
    \/ New
    \/ \E r \in Challenges : FoldBegin(r)
    \/ \E i \in todo : FoldTask(i)
    \/ FoldJoin

SpecPar == InitPar /\ [][NextPar]_vars

\* ------------------------------------------- the multilinear extension

\* LagrangeBases::gen_from_point: L_j(r_0, ..., r_{k-1}), the product over
\* the bits b of j of r_b (bit set) or 1 + r_b (bit clear).
RECURSIVE LagrangeBasis(_, _, _)
LagrangeBasis(j, point, b) ==
    IF b >= Len(point) THEN ONE
    ELSE Mul(IF Bit(j, b) = 1 THEN At(point, b) ELSE Add(ONE, At(point, b)),
             LagrangeBasis(j, point, b + 1))

\* poly_eval of test_fold: the sum of message[j] * L_j(point).
RECURSIVE MultilinearEval(_, _, _)
MultilinearEval(poly, point, j) ==
    IF j >= Len(poly) THEN ZERO
    ELSE Add(Mul(At(poly, j), LagrangeBasis(j, point, 0)),
             MultilinearEval(poly, point, j + 1))

\* ------------------------------------------------------------- claims

\* The message was encoded and has DEGREE * 2^k elements.
WellFormed ==
    /\ Len(message) >= 1
    /\ Len(message) % degree = 0
    /\ IsPowerOfTwo(Len(message) \div degree)

\* k: log2 of the number of wide-field elements of the message.
K == Log2(Len(message) \div degree)

\* C1: for a message of DEGREE * 2^k elements Code::new returns a codeword
\* of RATE * len(message) / DEGREE entries, every fold_code returns half the
\* length of its input, and after r <= k folds the length is
\* RATE * 2^k / 2^r.
C1_LengthInvariant ==
    (pc # "start" /\ WellFormed /\ round <= K) =>
        /\ pc = "ready"
        /\ Len(code) * Pow2(round) = RATE * (Len(message) \div degree)
        /\ Len(code) * Pow2(round) = RATE * Pow2(K)
        /\ round >= 1 => 2 * Len(code) = Len(self_enc)

C1_Witness ==
    /\ pc = "ready" /\ WellFormed /\ degree = 2
    /\ K >= 1 /\ round = K /\ Len(code) = RATE

\* C2 as stated: after k >= 1 folds of the codeword of a message of 2^k
\* wide-field elements the codeword has length 1.
C2_LengthOneAfterK ==
    (pc = "ready" /\ WellFormed /\ degree = 1 /\ K >= 1 /\ round = K) =>
        Len(code) = 1

\* C2 amended: after those k folds the codeword has length RATE.
C2_LengthRateAfterK ==
    (pc = "ready" /\ WellFormed /\ degree = 1 /\ round = K) => Len(code) = RATE

C2_Witness ==
    /\ pc = "ready" /\ WellFormed /\ degree = 1
    /\ K = MaxLogLen /\ round = K /\ Len(self_enc) = 2 * RATE

\* C3: folding the codeword of a message of 2^k wide-field elements k times,
\* rounds 0..k-1 with challenges r_0..r_{k-1}, leaves the multilinear
\* extension of the message at (r_0, ..., r_{k-1}): every remaining entry
\* equals the sum of message[j] * L_j(r).
C3_FoldIsMultilinearEval ==
    (pc = "ready" /\ WellFormed /\ degree = 1 /\ round = K) =>
        /\ Len(code) >= 1
        /\ \A p \in 1..Len(code) : code[p] = MultilinearEval(message, rs, 0)

C3_Witness ==
    /\ pc = "ready" /\ WellFormed /\ degree = 1
    /\ K >= 2 /\ round = K
    /\ rs[1] # rs[2]
    /\ Cardinality({l \in 1..Len(message) : message[l] # ZERO}) = 2
    /\ code[1] = MultilinearEval(message, rs, 0)
    /\ code[1] \notin {ZERO, ONE}

\* C4 as stated: fold_code on a codeword of odd length fails and returns no
\* folded codeword.
C4_OddLengthFails ==
    (round >= 1 /\ Len(self_enc) % 2 = 1) => (pc = "panicked" /\ code = <<>>)

\* C5 as stated: Code::new on a message whose length is not a multiple of
\* DEGREE fails and returns no codeword.
C5_BadLengthFails ==
    (pc # "start" /\ Len(message) % degree # 0) =>
        (pc = "panicked" /\ code = <<>>)

\* C6: with n the length of the repacked message, entry c * n + j of the
\* codeword of Code::new is entry j of the forward transform of coset c
\* applied to the repacked message itself, for every coset c < RATE.
C6_CosetMajorLayout ==
    (pc = "ready" /\ Len(message) >= 1 /\ round = 0) =>
        LET rp == Repack(message, degree).val
            n  == Len(rp)
        IN  /\ Len(code) = RATE * n
            /\ \A c \in 0..(RATE - 1) : \A j \in 0..(n - 1) :
                  At(code, c * n + j) = At(forward_transform(rp, c).data, j)

C6_Witness ==
    /\ pc = "ready" /\ round = 0 /\ Len(message) >= 1
    /\ LET n == Len(Repack(message, degree).val)
       IN  /\ n >= 2
           /\ Len(code) = RATE * n
           /\ \A c \in 1..(RATE - 1) :
                 SubSeq(code, c * n + 1, (c + 1) * n) # SubSeq(code, 1, n)

\* C7: whatever the order in which the tasks of fold_code run, each task
\* writes only its own slot i, the fold of input entries 2i and 2i+1, the
\* slots of the tasks still to run hold ZERO, the input is not written, and
\* the codeword returned is the one the tasks run in index order produce.
C7_TasksIndependent ==
    /\ pc = "folding" =>
          /\ Len(out) = Len(code) \div 2
          /\ \A i \in 0..(Len(out) - 1) :
                At(out, i) = IF i \in todo THEN ZERO
                             ELSE fold(cur_r, round, i, At(code, 2 * i), At(code, 2 * i + 1))
    /\ (pc = "ready" /\ round >= 1) =>
          code = fold_code(self_enc, rs[round], round - 1).ret

C7_Witness ==
    /\ pc = "folding"
    /\ \E i \in todo : \E j \in 0..(Len(out) - 1) :
          /\ i < j /\ j \notin todo
          /\ At(out, j) # ZERO
          /\ FoldTaskValue(code, cur_r, round, i) \notin {ZERO, At(out, j)}

ValidRounds(n) == {rnd \in 0..(LogDomain - 1) : n <= Pow2(LogDomain - 1 - rnd)}

\* The fold kernel as the claim writes it.
KernelValue(c, r, rnd, i) ==
    LET twiddle == get_subspace_eval(rnd, i)
        x1p == Add(At(c, 2 * i + 1), At(c, 2 * i))
        x0p == Add(At(c, 2 * i), Mul(x1p, twiddle))
    IN  Add(x0p, Mul(r, Add(x0p, x1p)))

\* C9: for an even-length codeword c, challenge r and round, entry i of
\* fold_code(c, r, round) is x0' + r * (x0' + x1') with
\* twiddle = subspace_eval(round, i), x1' = c[2i+1] + c[2i] and
\* x0' = c[2i] + x1' * twiddle.
C9_FoldKernel ==
    (pc = "ready" /\ Len(code) % 2 = 0) =>
        \A rnd \in ValidRounds(Len(code) \div 2) : \A r \in Challenges :
            LET f == fold_code(code, r, rnd)
            IN  /\ f.ok
                /\ Len(f.ret) = Len(code) \div 2
                /\ \A i \in 0..(Len(code) \div 2 - 1) :
                      At(f.ret, i) = KernelValue(code, r, rnd, i)

C9_Witness ==
    /\ pc = "ready" /\ round >= 1 /\ Len(self_enc) >= 4
    /\ Len(self_enc) % 2 = 0
    /\ At(code, 1) = KernelValue(self_enc, rs[round], round - 1, 1)
    /\ get_subspace_eval(round - 1, 1) \notin {ZERO, ONE}
    /\ At(self_enc, 2) # At(self_enc, 3)

\* x1' and x0' of the pair (2i, 2i+1) of the codeword held.
X1p(i) == Add(At(code, 2 * i + 1), At(code, 2 * i))

X0p(rnd, i) == Add(At(code, 2 * i), Mul(X1p(i), get_subspace_eval(rnd, i)))

FoldOut(r, rnd, i) == fold(r, rnd, i, At(code, 2 * i), At(code, 2 * i + 1))

\* C10 as stated: the fold output is x0' at challenge 0 and x0' + x1' at
\* challenge 1, and lies on the line through the two for every challenge.
C10_LineThroughSum ==
    pc = "ready" =>
        \A i \in 0..(Len(code) \div 2 - 1) :
        \A rnd \in ValidRounds(Len(code) \div 2) :
            LET x0p  == X0p(rnd, i)
                x1p  == X1p(i)
                out0 == FoldOut(ZERO, rnd, i)
                out1 == FoldOut(ONE, rnd, i)
            IN  /\ out0 = x0p
                /\ out1 = Add(x0p, x1p)
                /\ \A r \in Challenges :
                      FoldOut(r, rnd, i) = Add(out0, Mul(r, Add(out1, out0)))

\* C10 amended: the fold output is x0' at challenge 0 and x1' at challenge
\* 1, and lies on the line through the two for every challenge.
C10_LineThroughX1 ==
    pc = "ready" =>
        \A i \in 0..(Len(code) \div 2 - 1) :
        \A rnd \in ValidRounds(Len(code) \div 2) :
            LET x0p  == X0p(rnd, i)
                x1p  == X1p(i)
                out0 == FoldOut(ZERO, rnd, i)
                out1 == FoldOut(ONE, rnd, i)
            IN  /\ out0 = x0p
                /\ out1 = x1p
                /\ \A r \in Challenges :
                      FoldOut(r, rnd, i) = Add(out0, Mul(r, Add(out1, out0)))

C10_Witness ==
    /\ pc = "ready" /\ Len(code) >= 4 /\ Len(message) >= 1 /\ round >= 1
    /\ X0p(round, 1) # ZERO
    /\ X1p(1) # ZERO
    /\ X0p(round, 1) # X1p(1)
    /\ get_subspace_eval(round, 1) \notin {ZERO, ONE}
    /\ \E r \in Challenges : FoldOut(r, round, 1) \notin {X0p(round, 1), X1p(1)}
====
